---------------------------- MODULE Spec2Model ----------------------------
(***************************************************************************)
(* Model of the PMM integration web application (src/app.py and            *)
(* src/integrations/*.py): the HTTP handlers, the PmmServer bootstrap of   *)
(* the local pmm-admin client and the BaseIntegration operations.          *)
(*                                                                         *)
(* Texts (agent outputs, passwords, argv tokens) are TLA+ strings and the  *)
(* Python string methods are computed character by character.  Every       *)
(* subprocess the program starts is appended to the log `calls`.           *)
(***************************************************************************)
EXTENDS Integers, Sequences, FiniteSets, TLC

VARIABLES
    environ,    \* os.environ and the host: PMM_ADMIN_CMD, PMM_SERVER_URL_OVERRIDE, installed
    pc,         \* position of the request being served
    entry,      \* the operation being served
    req,        \* its inputs
    loc,        \* the locals of the running operation
    calls,      \* the agent subprocesses started while serving it, in order
    resp        \* what the operation returned

vars == <<environ, pc, entry, req, loc, calls, resp>>

-----------------------------------------------------------------------------
(* Python values and string methods *)

\* Python's None where a string is expected.
None == "<None>"

\* `not x` for a string-or-None x.
Falsy(x) == x = None \/ x = ""

UpperAlpha == "ABCDEFGHIJKLMNOPQRSTUVWXYZ"
LowerAlpha == "abcdefghijklmnopqrstuvwxyz"
Digits == "0123456789"

CharAt(s, i) == SubSeq(s, i, i)

IsIn(c, alphabet) == \E i \in 1..Len(alphabet) : CharAt(alphabet, i) = c

IndexIn(c, alphabet) == CHOOSE i \in 1..Len(alphabet) : CharAt(alphabet, i) = c

LowerChar(c) ==
    IF IsIn(c, UpperAlpha) THEN CharAt(LowerAlpha, IndexIn(c, UpperAlpha)) ELSE c

RECURSIVE lower(_)
lower(s) ==
    IF s = "" THEN "" ELSE LowerChar(CharAt(s, 1)) \o lower(SubSeq(s, 2, Len(s)))

\* `sub in s`
Contains(sub, s) ==
    \E i \in 1..(Len(s) - Len(sub) + 1) : SubSeq(s, i, i + Len(sub) - 1) = sub

startswith(s, p) == Len(p) <= Len(s) /\ SubSeq(s, 1, Len(p)) = p

endswith(s, p) == Len(p) <= Len(s) /\ SubSeq(s, Len(s) - Len(p) + 1, Len(s)) = p

IsSpace(c) == c = " " \/ c = "\n" \/ c = "\t" \/ c = "\r"

\* The first position of s at or after i that holds no whitespace (Len(s) + 1
\* when there is none), and the last position at or before j that holds none.
RECURSIVE FirstNonSpace(_, _)
FirstNonSpace(s, i) ==
    IF i <= Len(s) /\ IsSpace(CharAt(s, i)) THEN FirstNonSpace(s, i + 1) ELSE i

RECURSIVE LastNonSpace(_, _)
LastNonSpace(s, j) ==
    IF j >= 1 /\ IsSpace(CharAt(s, j)) THEN LastNonSpace(s, j - 1) ELSE j

lstrip(s) == SubSeq(s, FirstNonSpace(s, 1), Len(s))

rstrip(s) == SubSeq(s, 1, LastNonSpace(s, Len(s)))

strip(s) == rstrip(lstrip(s))

\* s.rstrip("/")
RECURSIVE LastNonSlash(_, _)
LastNonSlash(s, j) ==
    IF j >= 1 /\ CharAt(s, j) = "/" THEN LastNonSlash(s, j - 1) ELSE j

rstrip_slash(s) == SubSeq(s, 1, LastNonSlash(s, Len(s)))

\* s.split(): the maximal runs of non-whitespace characters, in order.
RECURSIVE SplitFrom(_, _, _)
SplitFrom(s, i, word) ==
    IF i > Len(s)
    THEN IF word = "" THEN <<>> ELSE <<word>>
    ELSE IF IsSpace(CharAt(s, i))
         THEN (IF word = "" THEN <<>> ELSE <<word>>) \o SplitFrom(s, i + 1, "")
         ELSE SplitFrom(s, i + 1, word \o CharAt(s, i))

split(s) == SplitFrom(s, 1, "")

\* urllib.parse.quote(s, safe=""): letters, digits and "_.-~" are kept, every
\* other character is percent-encoded.
PercentCode(c) ==
    CASE c = "@" -> "%40"
      [] c = "/" -> "%2F"
      [] c = ":" -> "%3A"
      [] c = " " -> "%20"
      [] c = "%" -> "%25"
      [] c = "#" -> "%23"
      [] c = "?" -> "%3F"
      [] c = "&" -> "%26"
      [] c = "=" -> "%3D"
      [] c = "+" -> "%2B"
      [] c = "$" -> "%24"
      [] c = "!" -> "%21"

QuoteChar(c) ==
    IF IsIn(c, UpperAlpha) \/ IsIn(c, LowerAlpha) \/ IsIn(c, Digits) \/ IsIn(c, "_.-~")
    THEN c
    ELSE PercentCode(c)

RECURSIVE QuoteFrom(_, _)
QuoteFrom(s, i) ==
    IF i > Len(s) THEN "" ELSE QuoteChar(CharAt(s, i)) \o QuoteFrom(s, i + 1)

urlquote(s) == QuoteFrom(s, 1)

\* dict.get(k, default) on a record.
Get(d, k, default) == IF k \in DOMAIN d THEN d[k] ELSE default


\* ", ".join(seq)
RECURSIVE Join(_)
Join(seq) ==
    IF seq = <<>> THEN ""
    ELSE IF Len(seq) = 1 THEN seq[1]
    ELSE seq[1] \o ", " \o Join(Tail(seq))

\* A dict with no keys (also the value of a local not yet assigned).
NoDict == <<>>

-----------------------------------------------------------------------------
(* The process environment and the host *)

\* app.py: PMM_BASE_URL = os.environ.get("PMM_BASE_URL", "https://127.0.0.1:443")
PMM_BASE_URL == "https://127.0.0.1:443"

\* Values of PMM_ADMIN_CMD ("" is unset), of PMM_SERVER_URL_OVERRIDE ("" is unset).
AdminCmdValues == {"", "sudo pmm-admin", "/nonexistent/pmm-admin"}
UrlOverrideValues == {"", "https://admin:pw@pmm.example:8443"}

\* The programs the host can execute.
OnHost == {"sudo"} \cup (IF environ.installed THEN {"pmm-admin"} ELSE {})

CanExec(argv) == argv # <<>> /\ argv[1] \in OnHost

\* subprocess.run(argv, stdout=PIPE, stderr=STDOUT): OSError when the program
\* cannot be executed, else any exit code and one of the outputs.
SubprocessRun(argv, outputs) ==
    IF CanExec(argv)
    THEN {[exc |-> "none", rc |-> rc, out |-> o] : rc \in {0, 1}, o \in outputs}
    ELSE {[exc |-> "OSError", rc |-> 0, out |-> ""]}

\* subprocess.check_output(argv, stderr=STDOUT): as run, and a non-zero exit
\* code raises CalledProcessError carrying the output.
CheckOutput(argv, outputs) ==
    {[r EXCEPT !.exc = IF r.exc = "none" /\ r.rc # 0 THEN "CalledProcessError" ELSE r.exc] :
        r \in SubprocessRun(argv, outputs)}

\* str(n) for a natural number.
RECURSIVE str(_)
str(n) == IF n < 10 THEN CharAt(Digits, n + 1)
          ELSE str(n \div 10) \o CharAt(Digits, (n % 10) + 1)

\* The log entry of a started subprocess: its subcommand, argv and output.
Call(sub, argv, r) == [sub |-> sub, argv |-> argv, out |-> r.out]

Started(sub, argv, r) == IF r.exc = "OSError" THEN <<>> ELSE <<Call(sub, argv, r)>>

-----------------------------------------------------------------------------
(* integrations/base.py: PmmServer *)

\* PmmServer.__init__: self.base_url = base_url.rstrip("/")
PmmBaseUrl == rstrip_slash(PMM_BASE_URL)

build_server_url(password) ==
    LET override == environ.PMM_SERVER_URL_OVERRIDE
        host_part == IF startswith(PmmBaseUrl, "https://")
                     THEN SubSeq(PmmBaseUrl, 9, Len(PmmBaseUrl))
                     ELSE PmmBaseUrl
        url == IF override # ""
               THEN override
               ELSE "https://admin:" \o urlquote(password) \o "@" \o host_part \o "/"
    IN  IF endswith(url, "/") THEN url ELSE url \o "/"

_status_connected(status_output) ==
    LET lo == lower(status_output)
    IN  Contains("connected", lo) /\ Contains("true", lo)

_status_not_setup(status_output) ==
    LET lo == lower(status_output)
    IN  \/ Contains("pmm-agent is running, but not set up", lo)
        \/ Contains("please run `pmm-admin config`", lo)
        \/ Contains("please run 'pmm-admin config'", lo)
        \/ Contains("please run \"pmm-admin config\"", lo)

\* The texts `pmm-admin status` may print.
StatusOutputs ==
    { "Connected        : true\n",
      "CONNECTED: TRUE",
      "Connected : false\n",
      "pmm-agent is running, but not set up.\n",
      "Please run `pmm-admin config` with --server-url.\n",
      "please run 'pmm-admin config'",
      "Please run \"pmm-admin config\"",
      "Connected: true; pmm-agent is running, but not set up",
      "connection refused\n",
      "" }

\* The texts `pmm-admin config` may print.
ConfigOutputs == {"Checking local pmm-agent status...\nConfiguration file updated.\n", "Failed to register.\n", ""}

\* The command of ensure_pmm_client_configured's config step.
cfg_cmd(pmm_admin, password, node_name) ==
    pmm_admin \o
    << "config",
       "--server-insecure-tls",
       "--server-url=" \o rstrip_slash(build_server_url(password)),
       node_name,
       "generic",
       "pmm3" >>

\* The three results ensure_pmm_client_configured returns.
EnsureNoPassword ==
    [success |-> FALSE, message |-> "PMM Admin Password is required.", output |-> ""]

EnsureConnected(out) == [success |-> TRUE, output |-> out]

EnsureConfigured_StatusOnly(cfg_out, out2) ==
    [success |-> TRUE, output |-> strip(out2)]

EnsureConfigured(cfg_out, out2) ==
    [success |-> TRUE, output |-> strip(cfg_out \o "\n\n" \o out2)]

EnsureStillNotConnected(cfg_out, out2) ==
    [success |-> FALSE,
     message |-> "pmm-admin config ran, but PMM client is still not connected.",
     output |-> strip(cfg_out \o "\n\n" \o out2)]

EnsureUnexpected(out) ==
    [success |-> FALSE,
     message |-> "pmm-admin status returned an unexpected state (not connected / not set up).",
     output |-> out]

-----------------------------------------------------------------------------
(* integrations/__init__.py and the engine adapters *)

ENGINE_MAP(engine) ==
    CASE engine \in {"pg", "postgresql"} -> "PostgreSQLIntegration"
      [] engine = "mysql" -> "MySQLIntegration"
      [] engine = "mongodb" -> "MongoDBIntegration"
      [] OTHER -> None

Classes == {"PostgreSQLIntegration", "MySQLIntegration", "MongoDBIntegration"}

ENGINE_FILTER(cls) ==
    CASE cls = "PostgreSQLIntegration" -> "pg"
      [] cls = "MySQLIntegration" -> "mysql"
      [] cls = "MongoDBIntegration" -> "mongodb"

DISPLAY_NAME(cls) ==
    CASE cls = "PostgreSQLIntegration" -> "PostgreSQL"
      [] cls = "MySQLIntegration" -> "MySQL"
      [] cls = "MongoDBIntegration" -> "MongoDB"

SUPPORTED_All(cls) == TRUE

SUPPORTED(cls) == cls # "MongoDBIntegration"

\* MongoDBIntegration.build_pmm_add_cmd raises NotImplementedError.
BuilderRaises(cls) == cls = "MongoDBIntegration"

build_pmm_add_cmd(cls, pmm_admin, server_url, instance) ==
    IF cls = "PostgreSQLIntegration"
    THEN pmm_admin \o
         << "add",
            "postgresql",
            "--username=" \o instance.username,
            "--password=" \o instance.password,
            "--host=" \o instance.host,
            "--port=" \o instance.port,
            "--service-name=" \o instance.name,
            "--database=defaultdb",
            "--auto-discovery-limit=-1",
            "--tls",
            "--tls-skip-verify",
            "--server-url=" \o server_url,
            "--server-insecure-tls",
            "--query-source=pgstatements" >>
    ELSE pmm_admin \o
         << "add",
            "mysql",
            "--username=" \o instance.username,
            "--password=" \o instance.password,
            "--host=" \o instance.host,
            "--port=" \o instance.port,
            "--service-name=" \o instance.name,
            "--tls",
            "--tls-skip-verify",
            "--server-url=" \o server_url,
            "--server-insecure-tls",
            "--query-source=perfschema" >>

\* The texts `pmm-admin add` and `pmm-admin remove` may print.
AddOutputs == {"Service added.\n", "Connection check failed.\n"}
RemoveOutputs == {"Service removed.\n", "Service not found.\n"}

-----------------------------------------------------------------------------
(* Requests *)

\* The keys /api/integrate requires of the instance, in the handler's order.
required == <<"name", "host", "port", "username", "password">>

\* A complete instance, and the instances with any of its fields empty or absent.
FullInstance ==
    [name |-> "db-a", host |-> "db.example", port |-> "25060",
     username |-> "pmm_monitor", password |-> "s3cr3t"]

Instances ==
    {[k \in {"name", "host", "port", "username", "password"} |->
        IF k \in present THEN FullInstance[k] ELSE ""] :
            present \in SUBSET {"name", "host", "port", "username", "password"}}

\* PMM admin passwords a request may carry: absent, empty, and two real ones.
Passwords == {None, "", "secret", "p@ss w/rd"}

\* Engine keys a request may carry: absent (None), the known ones, and others.
RequestEngines == {None, "pg", "postgresql", "mysql", "mongodb", "oracle", ""}

NoInstance == [k \in {"name", "host", "port", "username", "password"} |-> ""]

\* The locals of an operation before it starts.
NoLocals ==
    [cls |-> None, password |-> None, instance |-> NoInstance,
     service_type |-> None, service_name |-> None,
     pmm_admin |-> <<>>, cmd |-> <<>>, out |-> None, cfg_out |-> None, out2 |-> None,
     ensure |-> NoDict, result |-> NoDict]

NoResp == [kind |-> "none"]

\* Flask's JSON response of the add and remove handlers.
JsonResult(result) ==
    [kind |-> "http", code |-> 200, ok |-> result.success,
     message |-> Get(result, "message", ""), output |-> Get(result, "output", "")]

JsonError(code, message) ==
    [kind |-> "http", code |-> code, ok |-> FALSE, message |-> message]

\* An exception no handler catches: Flask answers 500; a direct caller sees it raised.
Uncaught(exc) ==
    IF entry = "add_to_pmm"
    THEN [kind |-> "raise", exc |-> exc]
    ELSE [kind |-> "http", code |-> 500, ok |-> FALSE, exc |-> exc]

\* What an operation that returned `result` hands back: the dict itself to a direct
\* caller, its JSON rendering to an HTTP client.
Returned(result) ==
    IF entry = "add_to_pmm"
    THEN [kind |-> "return", result |-> result]
    ELSE JsonResult(result)

-----------------------------------------------------------------------------
(* The initial state *)

Init ==
    /\ environ \in [PMM_ADMIN_CMD : AdminCmdValues,
                    PMM_SERVER_URL_OVERRIDE : UrlOverrideValues,
                    installed : BOOLEAN]
    /\ pc = "idle"
    /\ entry = "none"
    /\ req = [op |-> "none"]
    /\ loc = NoLocals
    /\ calls = <<>>
    /\ resp = NoResp

\* The operation ends: `r` is handed back.
Done(r) ==
    /\ resp' = r
    /\ pc' = "done"

-----------------------------------------------------------------------------
(* app.py: integrate, up to its call of add_to_pmm *)

\* The checks without the one of pmm_password.
IntegrateChecks_NoPasswordCheck(pmm_password, engine, instance) ==
    LET missing == SelectSeq(required, LAMBDA k : Falsy(instance[k]))
        cls == ENGINE_MAP(engine)
    IN  IF missing # <<>>
        THEN JsonError(400, "Missing fields: " \o Join(missing))
        ELSE IF cls = None
        THEN JsonError(400, "Unsupported engine: " \o engine)
        ELSE IF ~SUPPORTED(cls)
        THEN JsonError(400, DISPLAY_NAME(cls) \o " is not yet supported.")
        ELSE NoResp

\* The handler's checks before add_to_pmm: the 400 response, or NoResp to go on.
IntegrateChecks(pmm_password, engine, instance) ==
    LET missing == SelectSeq(required, LAMBDA k : Falsy(instance[k]))
        cls == ENGINE_MAP(engine)
    IN  IF missing # <<>> \/ Falsy(pmm_password)
        THEN JsonError(400, "Missing fields: " \o
                (IF Join(missing) # "" THEN Join(missing) ELSE "pmm_password"))
        ELSE IF cls = None
        THEN JsonError(400, "Unsupported engine: " \o engine)
        ELSE IF ~SUPPORTED(cls)
        THEN JsonError(400, DISPLAY_NAME(cls) \o " is not yet supported.")
        ELSE NoResp

Integrate ==
    /\ pc = "idle"
    /\ \E pmm_password \in Passwords, eng \in RequestEngines, instance \in Instances :
        LET \* data.get("pmm_password", ""), data.get("engine", "pg")
            password == IF pmm_password = None THEN "" ELSE pmm_password
            engine == IF eng = None THEN "pg" ELSE eng
            verdict == IntegrateChecks(password, engine, instance)
        IN  /\ entry' = "integrate"
            /\ req' = [pmm_password |-> pmm_password, engine |-> eng, instance |-> instance]
            /\ calls' = <<>>
            /\ IF verdict.kind = "http"
               THEN /\ Done(verdict)
                    /\ loc' = NoLocals
               ELSE /\ loc' = [NoLocals EXCEPT !.cls = ENGINE_MAP(engine),
                                               !.password = password,
                                               !.instance = instance]
                    /\ pc' = "get_cmd"
                    /\ resp' = NoResp
    /\ UNCHANGED environ

\* BaseIntegration.add_to_pmm called by a program that built the PmmServer and the
\* integration itself.
AddToPmm ==
    /\ pc = "idle"
    /\ \E cls \in Classes, password \in Passwords :
        /\ entry' = "add_to_pmm"
        /\ req' = [cls |-> cls, password |-> password, instance |-> FullInstance]
        /\ loc' = [NoLocals EXCEPT !.cls = cls, !.password = password,
                                   !.instance = FullInstance]
    /\ calls' = <<>>
    /\ pc' = "get_cmd"
    /\ resp' = NoResp
    /\ UNCHANGED environ

-----------------------------------------------------------------------------
(* PmmServer.get_pmm_admin_cmd, and the callers' "not found" result *)

NotFound ==
    [success |-> FALSE,
     message |-> "pmm-admin not found. Install the PMM client or set PMM_ADMIN_CMD."]

VersionOutputs == {"ProjectName: pmm-admin\nVersion: 3.0.0\n"}

\* The step after the agent command is known, by operation.
AfterGetCmd == IF entry \in {"integrate", "add_to_pmm"} THEN "ensure" ELSE "remove"

GetPmmAdminCmd ==
    /\ pc = "get_cmd"
    /\ LET env_cmd == environ.PMM_ADMIN_CMD
           probe == <<"pmm-admin", "--version">>
       IN  \E r \in (IF env_cmd # "" THEN {[exc |-> "none", rc |-> 0, out |-> ""]}
                     ELSE CheckOutput(probe, VersionOutputs)) :
            LET pmm_admin == IF env_cmd # "" THEN split(env_cmd)
                             ELSE IF r.exc = "none" THEN <<"pmm-admin">>
                             ELSE <<>>   \* None
            IN  /\ calls' = IF env_cmd # "" THEN calls
                            ELSE calls \o Started("--version", probe, r)
                /\ loc' = [loc EXCEPT !.pmm_admin = pmm_admin,
                                      !.result = IF pmm_admin = <<>> THEN NotFound ELSE NoDict]
                /\ IF pmm_admin = <<>>
                   THEN Done(Returned(NotFound))
                   ELSE pc' = AfterGetCmd /\ resp' = resp
    /\ UNCHANGED <<environ, entry, req>>

-----------------------------------------------------------------------------
(* PmmServer.ensure_pmm_client_configured, as add_to_pmm runs it *)

pmm_admin_status(pmm_admin) == SubprocessRun(pmm_admin \o <<"status">>, StatusOutputs)

\* add_to_pmm's result when the bootstrap failed.
EnsureFailed(ensure) ==
    [success |-> FALSE,
     message |-> Get(ensure, "message", "PMM client is not configured."),
     output |-> Get(ensure, "output", "")]

\* The branch ensure_pmm_client_configured takes on its first status output: the
\* connected test comes first, then the not-set-up test, else the final return.
FirstStatusBranch_NotSetUpFirst(out) ==
    IF _status_not_setup(out) THEN "NotSetUp"
    ELSE IF _status_connected(out) THEN "Connected"
    ELSE "Unknown"

FirstStatusBranch_NoUnknown(out) ==
    IF _status_connected(out) THEN "Connected" ELSE "NotSetUp"

FirstStatusBranch(out) ==
    IF _status_connected(out) THEN "Connected"
    ELSE IF _status_not_setup(out) THEN "NotSetUp"
    ELSE "Unknown"

\* add_to_pmm without its check of the bootstrap's result.
AfterEnsure_Unchecked(l, ensure) ==
    /\ loc' = [l EXCEPT !.ensure = ensure]
    /\ pc' = "add"
    /\ resp' = resp

\* ensure_pmm_client_configured returns `ensure` to add_to_pmm, whose locals are l.
AfterEnsure(l, ensure) ==
    IF ~Get(ensure, "success", FALSE)
    THEN /\ loc' = [l EXCEPT !.ensure = ensure, !.result = EnsureFailed(ensure)]
         /\ Done(Returned(EnsureFailed(ensure)))
    ELSE /\ loc' = [l EXCEPT !.ensure = ensure]
         /\ pc' = "add"
         /\ resp' = resp

\* The password check and the first status check.
EnsureStatus ==
    /\ pc = "ensure"
    /\ IF Falsy(loc.password)
       THEN /\ AfterEnsure(loc, EnsureNoPassword)
            /\ calls' = calls
       ELSE \E r \in pmm_admin_status(loc.pmm_admin) :
            /\ calls' = calls \o Started("status", loc.pmm_admin \o <<"status">>, r)
            /\ IF r.exc = "OSError"
               THEN /\ Done(Uncaught("OSError"))
                    /\ loc' = loc
               ELSE IF FirstStatusBranch(r.out) = "Connected"
               THEN AfterEnsure([loc EXCEPT !.out = r.out], EnsureConnected(r.out))
               ELSE IF FirstStatusBranch(r.out) = "NotSetUp"
               THEN /\ loc' = [loc EXCEPT !.out = r.out]
                    /\ pc' = "config"
                    /\ resp' = resp
               ELSE AfterEnsure([loc EXCEPT !.out = r.out], EnsureUnexpected(r.out))
    /\ UNCHANGED <<environ, entry, req>>

\* `pmm-admin config ...` after a status classified not set up.
EnsureConfig ==
    /\ pc = "config"
    /\ \E cmd \in {cfg_cmd(loc.pmm_admin, loc.password, "127.0.0.1")} :
           \E r \in SubprocessRun(cmd, ConfigOutputs) :
            /\ calls' = calls \o Started("config", cmd, r)
            /\ IF r.exc = "OSError"
               THEN /\ Done(Uncaught("OSError"))
                    /\ loc' = loc
               ELSE /\ loc' = [loc EXCEPT !.cfg_out = r.out]
                    /\ pc' = "status2"
                    /\ resp' = resp
    /\ UNCHANGED <<environ, entry, req>>

\* A bootstrap that goes back to `pmm-admin config` while the status after config
\* still says not set up, up to three times.
EnsureRecheck_Retry ==
    /\ pc = "status2"
    /\ \E r \in pmm_admin_status(loc.pmm_admin) :
        /\ calls' = calls \o Started("status", loc.pmm_admin \o <<"status">>, r)
        /\ IF r.exc = "OSError"
           THEN /\ Done(Uncaught("OSError"))
                /\ loc' = loc
           ELSE IF _status_connected(r.out)
           THEN AfterEnsure([loc EXCEPT !.out2 = r.out], EnsureConfigured(loc.cfg_out, r.out))
           ELSE IF /\ _status_not_setup(r.out)
                   /\ Len(SelectSeq(calls, LAMBDA c : c.sub = "config")) < 3
           THEN /\ loc' = [loc EXCEPT !.out2 = r.out]
                /\ pc' = "config"
                /\ resp' = resp
           ELSE AfterEnsure([loc EXCEPT !.out2 = r.out],
                            EnsureStillNotConnected(loc.cfg_out, r.out))
    /\ UNCHANGED <<environ, entry, req>>

\* The status check after config, and the bootstrap's verdict.
EnsureRecheck ==
    /\ pc = "status2"
    /\ \E r \in pmm_admin_status(loc.pmm_admin) :
        /\ calls' = calls \o Started("status", loc.pmm_admin \o <<"status">>, r)
        /\ IF r.exc = "OSError"
           THEN /\ Done(Uncaught("OSError"))
                /\ loc' = loc
           ELSE \E ensure \in {IF _status_connected(r.out)
                                 THEN EnsureConfigured(loc.cfg_out, r.out)
                                 ELSE EnsureStillNotConnected(loc.cfg_out, r.out)} :
                    AfterEnsure([loc EXCEPT !.out2 = r.out], ensure)
    /\ UNCHANGED <<environ, entry, req>>

-----------------------------------------------------------------------------
(* BaseIntegration.add_to_pmm after the bootstrap: build and run the add command *)

AddResult(r, cmd) ==
    CASE r.exc = "none" -> [success |-> TRUE, output |-> r.out]
      [] r.exc = "CalledProcessError" ->
            [success |-> FALSE,
             message |-> "pmm-admin failed (exit " \o str(r.rc) \o ")",
             output |-> r.out]
      [] r.exc = "OSError" ->
            [success |-> FALSE,
             message |-> "[Errno 2] No such file or directory: '" \o cmd[1] \o "'"]

RunAdd ==
    /\ pc = "add"
    /\ IF BuilderRaises(loc.cls)
       THEN /\ Done(Uncaught("NotImplementedError"))
            /\ UNCHANGED <<loc, calls>>
       ELSE LET server_url == build_server_url(loc.password)
                cmd == build_pmm_add_cmd(loc.cls, loc.pmm_admin, server_url, loc.instance)
            IN  \E r \in CheckOutput(cmd, AddOutputs) :
                 /\ calls' = calls \o Started("add", cmd, r)
                 /\ loc' = [loc EXCEPT !.cmd = cmd, !.result = AddResult(r, cmd)]
                 /\ Done(Returned(AddResult(r, cmd)))
    /\ UNCHANGED <<environ, entry, req>>

-----------------------------------------------------------------------------
(* app.py: remove, and BaseIntegration.remove_from_pmm *)

PMM_SERVICE_TYPE_MAP_PassThrough(engine) ==
    CASE engine \in {"pg", "postgresql"} -> "postgresql"
      [] OTHER -> engine

PMM_SERVICE_TYPE_MAP(engine) ==
    CASE engine \in {"pg", "postgresql"} -> "postgresql"
      [] engine = "mysql" -> "mysql"
      [] engine = "mongodb" -> "mongodb"
      [] OTHER -> None

\* Service names and engine keys a remove request may carry (None: key absent).
RequestServiceNames == {None, "", "  ", "db-a", " db-a\n"}
RemoveEngines == {None, "", "pg", "postgresql", "mysql", "mongodb", "oracle", " mysql "}

\* The handler's checks before remove_from_pmm: the 400 response, or NoResp to go on.
RemoveChecks(pmm_password, service_name, engine) ==
    IF Falsy(pmm_password) \/ Falsy(service_name) \/ Falsy(engine)
    THEN JsonError(400, "Missing pmm_password, service_name, or engine.")
    ELSE IF Falsy(PMM_SERVICE_TYPE_MAP(engine))
    THEN JsonError(400, "Unsupported engine: " \o engine)
    ELSE NoResp

Remove ==
    /\ pc = "idle"
    /\ \E pmm_password \in Passwords, name \in RequestServiceNames, eng \in RemoveEngines :
        LET \* data.get("pmm_password", ""), data.get(..., "").strip()
            password == IF pmm_password = None THEN "" ELSE pmm_password
            service_name == strip(IF name = None THEN "" ELSE name)
            engine == strip(IF eng = None THEN "" ELSE eng)
            verdict == RemoveChecks(password, service_name, engine)
        IN  /\ entry' = "remove"
            /\ req' = [pmm_password |-> pmm_password, service_name |-> name, engine |-> eng]
            /\ calls' = <<>>
            /\ IF verdict.kind = "http"
               THEN /\ Done(verdict)
                    /\ loc' = NoLocals
               ELSE /\ loc' = [NoLocals EXCEPT !.password = password,
                                               !.service_type = PMM_SERVICE_TYPE_MAP(engine),
                                               !.service_name = service_name]
                    /\ pc' = "get_cmd"
                    /\ resp' = NoResp
    /\ UNCHANGED environ

remove_cmd_Bare(pmm_admin, service_type, service_name) ==
    pmm_admin \o <<"remove", service_name>>

\* The command remove_from_pmm builds.
remove_cmd(pmm_admin, service_type, service_name) ==
    IF service_type \in {"postgresql", "mysql"}
    THEN pmm_admin \o <<"remove", service_type, service_name>>
    ELSE pmm_admin \o <<"remove", service_name>>

RemoveResult(r, cmd) ==
    CASE r.exc = "none" -> [success |-> TRUE, output |-> r.out]
      [] r.exc = "CalledProcessError" ->
            [success |-> FALSE,
             message |-> "pmm-admin remove failed (exit " \o str(r.rc) \o ")",
             output |-> r.out]
      [] r.exc = "OSError" ->
            [success |-> FALSE,
             message |-> "[Errno 2] No such file or directory: '" \o cmd[1] \o "'"]

RunRemove ==
    /\ pc = "remove"
    /\ LET cmd == remove_cmd(loc.pmm_admin, loc.service_type, loc.service_name)
       IN  \E r \in CheckOutput(cmd, RemoveOutputs) :
            /\ calls' = calls \o Started("remove", cmd, r)
            /\ loc' = [loc EXCEPT !.cmd = cmd, !.result = RemoveResult(r, cmd)]
            /\ Done(Returned(RemoveResult(r, cmd)))
    /\ UNCHANGED <<environ, entry, req>>

-----------------------------------------------------------------------------
(* The DigitalOcean API as create-user sees it *)

\* A reply to an HTTP request: a network failure (requests raises ConnectionError
\* or Timeout), or a status with a body.  A user body is {"user": {...}}; a key's
\* value None stands for the key being absent.
NetworkError == [err |-> TRUE, status |-> 0, json |-> "none", user |-> NoDict, message |-> None]

UserBodies ==
    {[name |-> n, password |-> pw] :
        n \in {None, "pmm_monitor"}, pw \in {None, "", "pw-of-existing-user"}}

UserReplies(statuses) ==
    {[err |-> FALSE, status |-> st, json |-> "user", user |-> u, message |-> None] :
        st \in statuses, u \in UserBodies}

\* A reply whose body is not JSON, or JSON without a "user" key.
PlainReplies(statuses) ==
    {[err |-> FALSE, status |-> st, json |-> j, user |-> NoDict, message |-> m] :
        st \in statuses, j \in {"invalid", "object"}, m \in {None, "upstream says no"}}

PostUserReplies ==
    {NetworkError} \cup UserReplies({201}) \cup PlainReplies({201, 401, 409, 422, 500})

GetUserReplies ==
    {NetworkError} \cup UserReplies({200}) \cup PlainReplies({200, 404, 500})

\* Response.raise_for_status() raises HTTPError.
RaisesForStatus(reply) == reply.status >= 400 /\ reply.status < 600

\* r.json()["user"] raises (ValueError, KeyError) unless the body is a user body.
HasUser(reply) == reply.json = "user"

-----------------------------------------------------------------------------
(* BaseIntegration.create_monitoring_user and app.py: create_user *)

\* _get_existing_user without the test of the password.
_get_existing_user_AnyPassword(reply) ==
    IF reply.err \/ RaisesForStatus(reply) \/ ~HasUser(reply) \/ reply.user.name = None
    THEN NoDict
    ELSE [username |-> reply.user.name,
          password |-> IF reply.user.password = None THEN "" ELSE reply.user.password]

\* _get_existing_user on the get-user reply: the user's name and password, or
\* NoDict (None) when anything failed or the password is missing or empty.
_get_existing_user(reply) ==
    IF reply.err \/ RaisesForStatus(reply) \/ ~HasUser(reply)
    THEN NoDict
    ELSE IF Falsy(reply.user.password)
    THEN NoDict
    ELSE IF reply.user.name = None
    THEN NoDict
    ELSE [username |-> reply.user.name, password |-> reply.user.password]

\* create_monitoring_user: what it returns, or the exception it raises.
create_monitoring_user(db_id, db_name, username, post, get) ==
    IF post.err
    THEN [raised |-> "ConnectionError"]
    ELSE IF post.status = 409
    THEN IF _get_existing_user(get) # NoDict
         THEN [raised |-> "none", value |-> _get_existing_user(get)]
         ELSE [raised |-> "none",
               value |-> [error |-> "user_exists", username |-> username,
                          db_id |-> db_id, db_name |-> db_name]]
    ELSE IF RaisesForStatus(post)
    THEN [raised |-> "HTTPError"]
    ELSE IF ~HasUser(post) \/ post.user.name = None \/ post.user.password = None
    THEN [raised |-> "KeyError"]
    ELSE [raised |-> "none",
          value |-> [username |-> post.user.name, password |-> post.user.password]]

\* create_user's response to what create_monitoring_user did.
CreateUserResponse(r, db_id, db_name, username, post) ==
    IF r.raised = "none"
    THEN IF "error" \in DOMAIN r.value
         THEN [kind |-> "http", code |-> 409, ok |-> FALSE,
               error_code |-> r.value.error,
               username |-> Get(r.value, "username", username),
               db_name |-> Get(r.value, "db_name", db_name),
               db_id |-> Get(r.value, "db_id", db_id)]
         ELSE [kind |-> "http", code |-> 200, ok |-> TRUE,
               username |-> r.value.username, password |-> r.value.password]
    ELSE IF r.raised = "HTTPError"
    THEN JsonError(post.status,
                   IF post.json = "object" /\ post.message # None
                   THEN post.message
                   ELSE "HTTP error creating user.")
    ELSE JsonError(500, r.raised)

\* The fields a create-user request may carry (None: key absent).
Tokens == {None, "  ", "dop_v1_token"}
DbIds == {"", "db-1"}
DbNames == {"", "db-a"}
UserEngines == {None, "mysql", "mongodb", "oracle"}
Usernames == {None, "monitor2"}

NoReply == [err |-> FALSE, status |-> 0, json |-> "none", user |-> NoDict, message |-> None]

CreateUser ==
    /\ pc = "idle"
    /\ \E do_token \in Tokens, db_id \in DbIds, db_name \in DbNames,
          eng \in UserEngines, name \in Usernames :
        LET token == strip(IF do_token = None THEN "" ELSE do_token)
            engine == IF eng = None THEN "pg" ELSE eng
            username == IF name = None THEN "pmm_monitor" ELSE name
            data == [do_token |-> do_token, db_id |-> db_id, db_name |-> db_name,
                     engine |-> eng, username |-> name]
        IN  /\ entry' = "create_user"
            /\ IF Falsy(token) \/ Falsy(db_id)
               THEN /\ req' = [data |-> data, post |-> NoReply, get |-> NoReply]
                    /\ Done(JsonError(400, "Missing required fields."))
               ELSE IF ENGINE_MAP(engine) = None
               THEN /\ req' = [data |-> data, post |-> NoReply, get |-> NoReply]
                    /\ Done(JsonError(400, "Unsupported engine: " \o engine))
               ELSE \E post \in PostUserReplies :
                    \E get \in (IF ~post.err /\ post.status = 409
                                THEN GetUserReplies ELSE {NoReply}) :
                        /\ req' = [data |-> data, post |-> post, get |-> get]
                        /\ Done(CreateUserResponse(
                                create_monitoring_user(db_id, db_name, username, post, get),
                                db_id, db_name, username, post))
    /\ loc' = NoLocals
    /\ calls' = <<>>
    /\ UNCHANGED environ

-----------------------------------------------------------------------------
(* app.py: list_databases *)

\* The port in a lookup key; a port of 0 stands for an absent "port" key, whose
\* default is "".
PortText(p) == IF p = 0 THEN "" ELSE str(p)

\* Bounds: the most databases in the DigitalOcean listing and the most entries in
\* the PMM service listing.
MaxDbs == 1
MaxServices == 2

\* The sequences over S of length at most n.
SeqsUpTo(S, n) == UNION {[1..k -> S] : k \in 0..n}

\* A database of the DigitalOcean listing: its engine tag, its public connection
\* and its private connection (priv_host "" when there is none).
Databases ==
    {[id |-> "db-1", name |-> "db-a", engine |-> e,
      host |-> c[1], port |-> c[2], priv_host |-> pv[1], priv_port |-> pv[2]] :
        e \in {"mysql", "pg"},
        c \in {<<"h1", 3306>>, <<"h1", 25060>>, <<"", 3306>>},
        pv \in {<<"", 0>>, <<"h1", 0>>, <<"h1", 25060>>}}

\* An entry of the PMM service listing, with the key of the list that holds it.
ServiceEntries ==
    { [cat |-> "mysql", address |-> "h1", port |-> 3306, service_name |-> "svc-a"],
      [cat |-> "services", address |-> "h1", port |-> 3306, service_name |-> "svc-b"],
      [cat |-> "services", address |-> "h1", port |-> 3306, service_name |-> ""],
      [cat |-> "services", address |-> "", port |-> 3306, service_name |-> "svc-a"],
      [cat |-> "proxysql", address |-> "h1", port |-> 3306, service_name |-> "svc-a"] }

\* Replies of GET /v2/databases and of PmmServer.list_services: a network failure,
\* an error status, a body that is not JSON or not an object, or the listing.
ListReply(err, status, json, items) ==
    [err |-> err, status |-> status, json |-> json, items |-> items]

DatabasesReplies ==
    {ListReply(TRUE, 0, "none", <<>>), ListReply(FALSE, 401, "object", <<>>),
     ListReply(FALSE, 500, "invalid", <<>>), ListReply(FALSE, 200, "invalid", <<>>)}
    \cup {ListReply(FALSE, 200, "object", dbs) : dbs \in SeqsUpTo(Databases, MaxDbs)}

ServicesReplies ==
    {ListReply(TRUE, 0, "none", <<>>), ListReply(FALSE, 401, "object", <<>>),
     ListReply(FALSE, 500, "invalid", <<>>), ListReply(FALSE, 200, "invalid", <<>>),
     ListReply(FALSE, 200, "array", <<>>)}
    \cup {ListReply(FALSE, 200, "object", es) : es \in SeqsUpTo(ServiceEntries, MaxServices)}

NoListReply == ListReply(FALSE, 0, "none", <<>>)

\* The lists the handler reads from the service listing, in its order.
ServiceKeys == <<"postgresql", "mysql", "mongodb", "services">>

EmptyMap == [k \in {} |-> ""]

Put(map, k, v) == [x \in DOMAIN map \cup {k} |-> IF x = k THEN v ELSE map[x]]

AddrKey(addr, port) == addr \o ":" \o PortText(port)

\* The inner loop over one list: every entry with a non-empty address is stored
\* under "<address>:<port>", a later entry replacing an earlier one.
RECURSIVE PutEntries(_, _)
PutEntries(map, entries) ==
    IF entries = <<>> THEN map
    ELSE LET s == Head(entries)
         IN  PutEntries(IF s.address # ""
                        THEN Put(map, AddrKey(s.address, s.port), s.service_name)
                        ELSE map,
                        Tail(entries))

RECURSIVE PutLists(_, _, _)
PutLists(map, keys, items) ==
    IF keys = <<>> THEN map
    ELSE PutLists(PutEntries(map, SelectSeq(items, LAMBDA s : s.cat = Head(keys))),
                  Tail(keys), items)

\* monitored_map after the try block: empty when list_services or the walk raised.
monitored_map(reply) ==
    IF reply.err \/ RaisesForStatus(reply) \/ reply.json # "object"
    THEN EmptyMap
    ELSE PutLists(EmptyMap, ServiceKeys, reply.items)

\* The endpoint the handler picks for a database.
SelectedHost(db, use_private) ==
    IF use_private /\ db.priv_host # "" THEN db.priv_host ELSE db.host

SelectedPort(db, use_private) ==
    IF use_private /\ db.priv_host # ""
    THEN (IF db.priv_port # 0 THEN db.priv_port ELSE db.port)
    ELSE db.port

\* The row of the response for one database (region, num_nodes and status are
\* copied through and left out here).
DatabaseRow(db, map, use_private) ==
    LET host == SelectedHost(db, use_private)
        port == SelectedPort(db, use_private)
        addr_key == AddrKey(host, port)
        pmm_service_name == Get(map, addr_key, "")
    IN  [id |-> db.id, name |-> db.name, engine |-> db.engine,
         host |-> host, port |-> port,
         monitored |-> pmm_service_name # "",
         pmm_service_name |-> pmm_service_name]

\* A handler whose service-listing walk has no try block around it: a failed
\* service listing ends the request.
ListDatabasesResponse_PmmFailureAborts(cls, do_reply, pmm_reply, use_private) ==
    IF do_reply.err \/ RaisesForStatus(do_reply)
    THEN JsonError(502, IF do_reply.err THEN "ConnectionError" ELSE "HTTPError")
    ELSE IF do_reply.json # "object"
    THEN [kind |-> "http", code |-> 500, ok |-> FALSE, exc |-> "ValueError"]
    ELSE IF pmm_reply.err \/ RaisesForStatus(pmm_reply) \/ pmm_reply.json # "object"
    THEN [kind |-> "http", code |-> 500, ok |-> FALSE, exc |-> "Exception"]
    ELSE LET filtered == SelectSeq(do_reply.items,
                                   LAMBDA d : d.engine = ENGINE_FILTER(cls))
             map == monitored_map(pmm_reply)
         IN  [kind |-> "http", code |-> 200, ok |-> TRUE,
              databases |-> [i \in 1..Len(filtered) |->
                                DatabaseRow(filtered[i], map, use_private)]]

\* The handler's response once the request passed its checks.
ListDatabasesResponse(cls, do_reply, pmm_reply, use_private) ==
    IF do_reply.err \/ RaisesForStatus(do_reply)
    THEN JsonError(502, IF do_reply.err THEN "ConnectionError" ELSE "HTTPError")
    ELSE IF do_reply.json # "object"
    THEN [kind |-> "http", code |-> 500, ok |-> FALSE, exc |-> "ValueError"]
    ELSE LET filtered == SelectSeq(do_reply.items,
                                   LAMBDA d : d.engine = ENGINE_FILTER(cls))
             map == monitored_map(pmm_reply)
         IN  [kind |-> "http", code |-> 200, ok |-> TRUE,
              databases |-> [i \in 1..Len(filtered) |->
                                DatabaseRow(filtered[i], map, use_private)]]

\* The fields a list-databases request may carry (None: key absent).
ListEngines == {None, "pg", "mysql", "mongodb", "oracle"}
ListPasswords == {None, "secret"}

ListDatabases ==
    /\ pc = "idle"
    /\ \E do_token \in Tokens, eng \in ListEngines, pmm_password \in ListPasswords,
          use_private \in BOOLEAN :
        LET token == strip(IF do_token = None THEN "" ELSE do_token)
            engine == strip(IF eng = None THEN "" ELSE eng)
            data == [do_token |-> do_token, engine |-> eng,
                     pmm_password |-> pmm_password, use_private |-> use_private]
            cls == ENGINE_MAP(engine)
        IN  /\ entry' = "databases"
            /\ IF Falsy(token)
               THEN /\ req' = [data |-> data, do |-> NoListReply, pmm |-> NoListReply]
                    /\ Done(JsonError(400, "DigitalOcean API token is required."))
               ELSE IF cls = None
               THEN /\ req' = [data |-> data, do |-> NoListReply, pmm |-> NoListReply]
                    /\ Done(JsonError(400, "Unsupported engine: " \o engine))
               ELSE IF ~SUPPORTED(cls)
               THEN /\ req' = [data |-> data, do |-> NoListReply, pmm |-> NoListReply]
                    /\ Done(JsonError(400, DISPLAY_NAME(cls) \o " is not yet supported."))
               ELSE \E do_reply \in DatabasesReplies :
                    \E pmm_reply \in (IF do_reply.err \/ RaisesForStatus(do_reply)
                                         \/ do_reply.json # "object"
                                      THEN {NoListReply} ELSE ServicesReplies) :
                        /\ req' = [data |-> data, do |-> do_reply, pmm |-> pmm_reply]
                        /\ Done(ListDatabasesResponse(cls, do_reply, pmm_reply, use_private))
    /\ loc' = NoLocals
    /\ calls' = <<>>
    /\ UNCHANGED environ

-----------------------------------------------------------------------------
(* app.py: validate_token and validate_pmm; PmmServer.list_services *)

\* Replies of GET /v2/account.
AccountReplies ==
    {ListReply(TRUE, 0, "none", <<>>), ListReply(FALSE, 200, "object", <<>>),
     ListReply(FALSE, 401, "object", <<>>), ListReply(FALSE, 403, "object", <<>>),
     ListReply(FALSE, 500, "invalid", <<>>)}

\* validate_token's response once the token is known to be non-empty.
ValidateTokenResponse(reply) ==
    IF reply.err
    THEN JsonError(502, "ConnectionError")
    ELSE IF reply.status = 401
    THEN JsonError(401, "Invalid DigitalOcean API token.")
    ELSE IF RaisesForStatus(reply)
    THEN JsonError(502, "HTTPError")
    ELSE [kind |-> "http", code |-> 200, ok |-> TRUE]

ValidateToken ==
    /\ pc = "idle"
    /\ \E do_token \in Tokens :
        LET token == strip(IF do_token = None THEN "" ELSE do_token)
            data == [do_token |-> do_token]
        IN  /\ entry' = "validate_token"
            /\ IF Falsy(token)
               THEN /\ req' = [data |-> data, do |-> NoListReply, pmm |-> NoListReply]
                    /\ Done(JsonError(400, "DigitalOcean API token is required."))
               ELSE \E reply \in AccountReplies :
                    /\ req' = [data |-> data, do |-> reply, pmm |-> NoListReply]
                    /\ Done(ValidateTokenResponse(reply))
    /\ loc' = NoLocals
    /\ calls' = <<>>
    /\ UNCHANGED environ

\* PmmServer.list_services: the exception it raises, or "none" when it returns
\* the decoded body.
list_services(reply) ==
    IF reply.err THEN "ConnectionError"
    ELSE IF RaisesForStatus(reply) THEN "HTTPError"
    ELSE IF reply.json = "invalid" THEN "JSONDecodeError"
    ELSE "none"

\* Replies of the PMM management endpoint to validate_pmm's probe.
ProbeReplies ==
    {ListReply(TRUE, 0, "none", <<>>), ListReply(FALSE, 401, "object", <<>>),
     ListReply(FALSE, 500, "invalid", <<>>), ListReply(FALSE, 200, "invalid", <<>>),
     ListReply(FALSE, 200, "array", <<>>), ListReply(FALSE, 200, "object", <<>>)}

\* validate_pmm's response once the password is known to be non-empty.  The
\* exception r.json() raises on a body that is not JSON is a RequestException in
\* requests 2.27 and later and a plain ValueError before (json_is_request_exception).
ValidatePmmResponse(reply, json_is_request_exception) ==
    LET raised == list_services(reply)
    IN  IF raised = "none"
        THEN [kind |-> "http", code |-> 200, ok |-> TRUE]
        ELSE IF raised = "HTTPError"
        THEN IF reply.status = 401
             THEN JsonError(401, "Invalid PMM admin password.")
             ELSE JsonError(502, "HTTPError")
        ELSE IF raised = "ConnectionError" \/ json_is_request_exception
        THEN JsonError(502, "Cannot reach PMM server at " \o PMM_BASE_URL \o ": " \o raised)
        ELSE [kind |-> "http", code |-> 500, ok |-> FALSE, exc |-> "ValueError"]

ValidatePmm ==
    /\ pc = "idle"
    /\ \E pmm_password \in Passwords :
        LET password == IF pmm_password = None THEN "" ELSE pmm_password
            data == [pmm_password |-> pmm_password]
        IN  /\ entry' = "validate_pmm"
            /\ IF Falsy(password)
               THEN /\ req' = [data |-> data, do |-> NoListReply, pmm |-> NoListReply]
                    /\ Done(JsonError(400, "PMM admin password is required."))
               ELSE \E reply \in ProbeReplies, json_is_request_exception \in BOOLEAN :
                    /\ req' = [data |-> data, do |-> NoListReply, pmm |-> reply]
                    /\ Done(ValidatePmmResponse(reply, json_is_request_exception))
    /\ loc' = NoLocals
    /\ calls' = <<>>
    /\ UNCHANGED environ

-----------------------------------------------------------------------------
(* The server goes on to the next request *)

NextRequest ==
    /\ pc = "done"
    /\ pc' = "idle"
    /\ entry' = "none"
    /\ req' = [op |-> "none"]
    /\ loc' = NoLocals
    /\ calls' = <<>>
    /\ resp' = NoResp
    /\ UNCHANGED environ

Next ==
    \/ Integrate
    \/ AddToPmm
    \/ GetPmmAdminCmd
    \/ EnsureStatus
    \/ EnsureConfig
    \/ EnsureRecheck
    \/ RunAdd
    \/ Remove
    \/ RunRemove
    \/ NextRequest

Spec == Init /\ [][Next]_vars

\* The bootstrap is straight-line code run by the thread that serves the request:
\* once an agent invocation has returned, the statement after it runs.
BootstrapFairness ==
    /\ WF_vars(EnsureStatus)
    /\ WF_vars(EnsureConfig)
    /\ WF_vars(EnsureRecheck)

SpecFair == Init /\ [][Next]_vars /\ BootstrapFairness

\* The operations that talk to the DigitalOcean and PMM HTTP APIs; they start no
\* agent subprocess and read neither PMM_ADMIN_CMD nor PMM_SERVER_URL_OVERRIDE.
InitApi ==
    /\ Init
    /\ environ = [PMM_ADMIN_CMD |-> "", PMM_SERVER_URL_OVERRIDE |-> "", installed |-> TRUE]

NextApi ==
    \/ ValidateToken
    \/ ValidatePmm
    \/ CreateUser
    \/ ListDatabases
    \/ NextRequest

SpecApi == InitApi /\ [][NextApi]_vars

-----------------------------------------------------------------------------
(* Properties *)

\* The subcommands of the subprocesses started so far, in order.
Subs == [i \in 1..Len(calls) |-> calls[i].sub]

Invoked(sub) == \E i \in 1..Len(calls) : calls[i].sub = sub

CountOf(sub) == Cardinality({i \in 1..Len(calls) : calls[i].sub = sub})

AddOperation == entry \in {"integrate", "add_to_pmm"}

\* The bootstrap has returned to add_to_pmm.
Bootstrapped == "success" \in DOMAIN loc.ensure

\* A text holds both tokens of the connected marker, in any letter case.
HasConnectedTrue(out) == Contains("connected", lower(out)) /\ Contains("true", lower(out))

\* C1: in every add-to-PMM call, each 'add' subprocess directly follows a status
\* check of the same call whose output was classified Connected, and no 'add' is
\* started in a call whose bootstrap returned failure.
C1_AddOnlyAfterConnected ==
    /\ \A i \in 1..Len(calls) :
        calls[i].sub = "add" =>
            /\ i > 1
            /\ calls[i - 1].sub = "status"
            /\ HasConnectedTrue(calls[i - 1].out)
    /\ (Bootstrapped /\ ~loc.ensure.success) => ~Invoked("add")

\* C1 witness: an add was started after config and a second, connected status.
C1_Witness ==
    /\ entry = "integrate"
    /\ pc = "done"
    /\ Invoked("add")
    /\ Invoked("config")
    /\ resp.ok

\* C2: with a non-empty password, a first status output holding 'connected' and
\* 'true' makes the bootstrap succeed with exactly that output and without config,
\* also when the output holds a not-set-up marker too.
C2_ConnectedSucceedsWithoutConfig ==
    (AddOperation /\ loc.out # None /\ HasConnectedTrue(loc.out)) =>
        /\ ~Falsy(loc.password)
        /\ Bootstrapped
        /\ loc.ensure.success
        /\ loc.ensure.output = loc.out
        /\ ~Invoked("config")
        /\ CountOf("status") = 1

\* C2 witness: the first status output held the connected marker and a not-set-up
\* marker, and the bootstrap succeeded.
C2_Witness ==
    /\ AddOperation
    /\ loc.out # None
    /\ HasConnectedTrue(loc.out)
    /\ Contains("not set up", lower(loc.out))
    /\ Bootstrapped
    /\ loc.ensure.success

\* The first status output was classified NotSetUp / Unknown.
FirstNotSetUp == loc.out # None /\ ~_status_connected(loc.out) /\ _status_not_setup(loc.out)
FirstUnknown == loc.out # None /\ ~_status_connected(loc.out) /\ ~_status_not_setup(loc.out)

\* C3: after a first status classified NotSetUp, config runs and then status again;
\* the bootstrap succeeds exactly when the second output is classified Connected,
\* and either way returns the config output followed by the second status output
\* (joined by a blank line, surrounding whitespace trimmed).
C3_NotSetUpConfiguresAndRechecks ==
    (AddOperation /\ FirstNotSetUp) =>
        /\ pc \in {"config", "status2", "add", "done"}
        /\ pc = "config" => Subs[Len(calls)] = "status" /\ ~Invoked("config")
        /\ pc = "status2" =>
            /\ Len(calls) >= 2
            /\ Subs[Len(calls) - 1] = "status"
            /\ Subs[Len(calls)] = "config"
        /\ pc \in {"add", "done"} =>
            /\ Bootstrapped
            /\ CountOf("status") = 2
            /\ CountOf("config") = 1
            /\ \E i \in 1..Len(calls) - 2 :
                /\ Subs[i] = "status" /\ calls[i].out = loc.out
                /\ Subs[i + 1] = "config" /\ calls[i + 1].out = loc.cfg_out
                /\ Subs[i + 2] = "status" /\ calls[i + 2].out = loc.out2
            /\ loc.ensure.success <=> HasConnectedTrue(loc.out2)
            /\ loc.ensure.output = strip(loc.cfg_out \o "\n\n" \o loc.out2)

\* C3 witnesses: both outcomes of the re-check were reached with non-empty outputs.
C3_Witness ==
    /\ AddOperation
    /\ FirstNotSetUp
    /\ Bootstrapped
    /\ ~loc.ensure.success
    /\ loc.cfg_out # ""
    /\ loc.out2 # ""
    /\ Len(loc.ensure.output) > Len(strip(loc.out2))

\* C4: a first status classified neither Connected nor NotSetUp fails the bootstrap
\* at once with the 'unexpected state' message and the raw output; no config, no
\* second status and no add is started.
C4_UnknownFailsImmediately ==
    (AddOperation /\ FirstUnknown) =>
        /\ pc = "done"
        /\ Bootstrapped
        /\ ~loc.ensure.success
        /\ loc.ensure.message =
             "pmm-admin status returned an unexpected state (not connected / not set up)."
        /\ loc.ensure.output = loc.out
        /\ CountOf("status") = 1
        /\ ~Invoked("config")
        /\ ~Invoked("add")

\* C4 witness: a non-empty unclassifiable status output ended the call.
C4_Witness ==
    /\ entry = "integrate"
    /\ FirstUnknown
    /\ loc.out # ""
    /\ pc = "done"
    /\ resp.kind = "http"
    /\ ~resp.ok
    /\ resp.output = loc.out

\* The PMM admin password of the running add-to-PMM attempt is empty or absent.
NoPasswordSupplied ==
    \/ entry = "integrate" /\ Falsy(req.pmm_password)
    \/ entry = "add_to_pmm" /\ Falsy(req.password)

\* C5 as stated: without a password no agent subprocess of any kind is started,
\* through /api/integrate and through a direct add_to_pmm call alike.
C5_NoAgentWithoutPassword ==
    NoPasswordSupplied => calls = <<>>

\* C5 amended: without a password no status, config or add is ever started and the
\* attempt fails; through /api/integrate nothing at all is started (HTTP 400); a
\* direct add_to_pmm call starts at most the `pmm-admin --version` probe.
C5_NoBootstrapWithoutPassword ==
    NoPasswordSupplied =>
        /\ ~Invoked("status") /\ ~Invoked("config") /\ ~Invoked("add")
        /\ Len(calls) <= 1
        /\ entry = "integrate" => calls = <<>> /\ pc = "done" /\ resp.code = 400
        /\ (entry = "add_to_pmm" /\ pc = "done") =>
                resp.kind = "return" /\ ~resp.result.success

\* C5 witness: a direct call without password ran the version probe and then failed
\* on the missing password.
C5_Witness ==
    /\ entry = "add_to_pmm"
    /\ NoPasswordSupplied
    /\ pc = "done"
    /\ Subs = <<"--version">>
    /\ resp.result.message = "PMM Admin Password is required."

\* C6: an /api/integrate request for engine "mongodb" is answered 400 without any
\* agent subprocess, whatever its other fields; the handler never takes the
\* MongoDB adapter into add_to_pmm.
C6_MongoRejectedWithoutAgent ==
    /\ (entry = "integrate" /\ req.engine = "mongodb") =>
            /\ pc = "done"
            /\ resp.kind = "http"
            /\ resp.code = 400
            /\ calls = <<>>
    /\ entry = "integrate" => loc.cls # "MongoDBIntegration"

\* C6 witness: a complete mongodb request with a password was refused as unsupported.
C6_Witness ==
    /\ entry = "integrate"
    /\ req.engine = "mongodb"
    /\ req.instance = FullInstance
    /\ ~Falsy(req.pmm_password)
    /\ resp.kind = "http"
    /\ resp.message = "MongoDB is not yet supported."

\* A remove command was built for a request whose engine key is `key`.
RemoveBuilt(key) ==
    /\ entry = "remove"
    /\ pc = "done"
    /\ loc.cmd # <<>>
    /\ strip(req.engine) = key

\* The first place of token t in argv, 0 when absent.
IndexOf(argv, t) ==
    IF \E i \in 1..Len(argv) : argv[i] = t
    THEN CHOOSE i \in 1..Len(argv) : argv[i] = t /\ \A j \in 1..(i - 1) : argv[j] # t
    ELSE 0

ClassifiesToSqlType(key) == key \in {"pg", "postgresql", "mysql"}

\* A remove request that carries a password, a service name and an engine key.
RemoveFieldsPresent ==
    /\ entry = "remove"
    /\ ~Falsy(req.pmm_password)
    /\ ~Falsy(req.service_name) /\ strip(req.service_name) # ""
    /\ ~Falsy(req.engine) /\ strip(req.engine) # ""

\* C8 as stated: every engine key that does not classify to postgresql or mysql,
\* "mongodb" included, is rejected with 400 and no remove command is issued
\* (looked at where the host has an agent to issue it to).
C8_OnlySqlEnginesAccepted ==
    (/\ RemoveFieldsPresent
     /\ ~ClassifiesToSqlType(strip(req.engine))
     /\ pc = "done"
     /\ environ.PMM_ADMIN_CMD # "") =>
        /\ resp.kind = "http"
        /\ resp.code = 400
        /\ loc.cmd = <<>>
        /\ ~Invoked("remove")

\* C8 amended: the engine keys pg, postgresql, mysql and mongodb are accepted; any
\* other key is rejected with 400 and no remove command is built or issued; for
\* mongodb the command is the bare form, `remove <service-name>`.
C8_UnknownEnginesRejected ==
    RemoveFieldsPresent =>
        /\ strip(req.engine) \notin {"pg", "postgresql", "mysql", "mongodb"} =>
            /\ pc = "done"
            /\ resp.kind = "http"
            /\ resp.code = 400
            /\ resp.message = "Unsupported engine: " \o strip(req.engine)
            /\ loc.cmd = <<>>
            /\ calls = <<>>
        /\ strip(req.engine) \in {"pg", "postgresql", "mysql", "mongodb"} =>
            (pc = "done" => resp.code = 200)
        /\ RemoveBuilt("mongodb") =>
            loc.cmd = loc.pmm_admin \o <<"remove", strip(req.service_name)>>

\* C8 witness: a mongodb service was removed with the bare command.
C8_Witness ==
    /\ RemoveBuilt("mongodb")
    /\ Invoked("remove")
    /\ resp.kind = "http"
    /\ resp.code = 200
    /\ resp.ok

\* The user-creation call of a finished create-user request returned 409.
Conflict ==
    /\ entry = "create_user"
    /\ pc = "done"
    /\ ~req.post.err
    /\ req.post.status = 409

\* The follow-up get-user call returned the existing user with a non-empty password.
PasswordRetrieved ==
    /\ ~req.get.err
    /\ req.get.status \in 200..399
    /\ req.get.json = "user"
    /\ req.get.user.password \notin {None, ""}

AttemptedUsername == IF req.data.username = None THEN "pmm_monitor" ELSE req.data.username

\* C9: after a 409 from user creation, the response is a 200 with a password only
\* if get-user returned the existing user's non-empty password (and then it is that
\* password); otherwise it is a 409 with error_code "user_exists", the attempted
\* username, db_name and db_id, and no password.
C9_ConflictNeverInventsPassword ==
    Conflict =>
        /\ resp.code \in {200, 409}
        /\ resp.code = 200 =>
            /\ PasswordRetrieved
            /\ resp.password = req.get.user.password
        /\ ~PasswordRetrieved =>
            /\ resp.code = 409
            /\ ~resp.ok
            /\ resp.error_code = "user_exists"
            /\ resp.username = AttemptedUsername
            /\ resp.db_name = req.data.db_name
            /\ resp.db_id = req.data.db_id
            /\ "password" \notin DOMAIN resp

\* C9 witness: the existing user came back with an empty password and the request
\* was answered 409 user_exists.
C9_Witness ==
    /\ Conflict
    /\ req.get.json = "user"
    /\ req.get.status = 200
    /\ req.get.user.password = ""
    /\ req.get.user.name # None
    /\ resp.code = 409
    /\ resp.error_code = "user_exists"

\* A list-databases request was answered with the listing, and the PMM service
\* listing it was enriched with arrived intact.
ListedWithServices ==
    /\ entry = "databases"
    /\ pc = "done"
    /\ resp.code = 200
    /\ ~req.pmm.err
    /\ req.pmm.status = 200
    /\ req.pmm.json = "object"

\* The entries of the service listing, in one of the lists the lookup is built
\* from, whose address and port make the key of the row's endpoint.
MatchingEntries(row) ==
    {j \in 1..Len(req.pmm.items) :
        /\ req.pmm.items[j].cat \in {"postgresql", "mysql", "mongodb", "services"}
        /\ req.pmm.items[j].address # ""
        /\ req.pmm.items[j].address = row.host
        /\ req.pmm.items[j].port = row.port}

\* C10: a database whose selected endpoint is the address and port of an entry of
\* the service listing is reported monitored=true with the service name of such an
\* entry; one whose endpoint matches no entry is reported monitored=false with an
\* empty service name.
C10_MatchingEntryMeansMonitored ==
    ListedWithServices =>
        \A i \in 1..Len(resp.databases) :
            LET row == resp.databases[i]
            IN  /\ MatchingEntries(row) # {} =>
                    /\ row.monitored
                    /\ \E j \in MatchingEntries(row) :
                        row.pmm_service_name = req.pmm.items[j].service_name
                /\ MatchingEntries(row) = {} =>
                    /\ ~row.monitored
                    /\ row.pmm_service_name = ""

\* A finished list-databases request whose DigitalOcean listing arrived (a
\* success status and a JSON object) and whose PMM service listing failed: the
\* server was unreachable, answered an error status such as 401, or sent a body
\* that is not JSON or not a JSON object.
ListedWithFailedServices ==
    /\ entry = "databases"
    /\ pc = "done"
    /\ ~req.do.err
    /\ req.do.status \in 200..399
    /\ req.do.json = "object"
    /\ \/ req.pmm.err
       \/ req.pmm.status \notin 200..399
       \/ req.pmm.json # "object"

\* The engine tag the requested engine selects in the DigitalOcean listing.
RequestedEngineTag ==
    LET e == strip(req.data.engine)
    IN  IF e \in {"pg", "postgresql"} THEN "pg" ELSE e

\* The positions of the DigitalOcean listing that carry the requested engine.
RECURSIVE FilteredPositions(_)
FilteredPositions(n) ==
    IF n = 0 THEN <<>>
    ELSE IF req.do.items[n].engine = RequestedEngineTag
    THEN Append(FilteredPositions(n - 1), n)
    ELSE FilteredPositions(n - 1)

\* C11: when the DigitalOcean listing succeeded and the PMM service listing
\* failed, the response is a 200 with ok=true that holds, in order, every
\* database of the requested engine, each with monitored=false and an empty
\* service name.
C11_ServiceListingFailureDegrades ==
    ListedWithFailedServices =>
        LET pos == FilteredPositions(Len(req.do.items))
        IN  /\ resp.kind = "http"
            /\ resp.code = 200
            /\ resp.ok
            /\ Len(resp.databases) = Len(pos)
            /\ \A i \in 1..Len(pos) :
                /\ resp.databases[i].id = req.do.items[pos[i]].id
                /\ resp.databases[i].name = req.do.items[pos[i]].name
                /\ ~resp.databases[i].monitored
                /\ resp.databases[i].pmm_service_name = ""

\* C11 witness: the PMM server could not be reached and the listing still came
\* back with a database in it, reported unmonitored.
C11_Witness ==
    /\ ListedWithFailedServices
    /\ req.pmm.err
    /\ resp.code = 200
    /\ resp.ok
    /\ Len(resp.databases) >= 1
    /\ ~resp.databases[1].monitored

\* The program the agent invocations of this host would execute: the first word
\* of PMM_ADMIN_CMD when it is set, else pmm-admin from the search path.
AgentProgram ==
    IF environ.PMM_ADMIN_CMD # "" THEN split(environ.PMM_ADMIN_CMD)[1] ELSE "pmm-admin"

\* The agent binary cannot be found or executed on this host.
AgentMissing == AgentProgram \notin OnHost

\* An add-to-PMM or remove-from-PMM operation that passed the handler's checks of
\* the request and has finished.
AgentOperationFinished ==
    /\ pc = "done"
    /\ entry \in {"integrate", "add_to_pmm", "remove"}
    /\ ~(resp.kind = "http" /\ resp.code = 400)

\* The operation handed back a result with success=false and a message: the dict
\* itself to a direct caller, its JSON rendering (HTTP 200, ok=false) to a client.
InBandFailure ==
    \/ /\ resp.kind = "return"
       /\ ~resp.result.success
       /\ Get(resp.result, "message", "") # ""
    \/ /\ resp.kind = "http"
       /\ resp.code = 200
       /\ ~resp.ok
       /\ resp.message # ""

\* C12: when the agent binary cannot be found or executed, a finished add-to-PMM
\* or remove-from-PMM operation has returned an in-band result with success=false
\* and a message; no exception of an agent invocation left the operation.
C12_MissingAgentFailsInBand ==
    (AgentOperationFinished /\ AgentMissing) => InBandFailure

\* The request that has finished failed on the network (connection error or
\* timeout) in the call of the API it is about: the account probe of
\* validate-token, the service listing of validate-pmm, the database listing of
\* list-databases, the user creation of create-user.
UpstreamUnreachable ==
    /\ pc = "done"
    /\ \/ entry = "validate_token" /\ req.do.err
       \/ entry = "validate_pmm" /\ req.pmm.err
       \/ entry = "databases" /\ req.do.err
       \/ entry = "create_user" /\ req.post.err

\* C13: a network failure or timeout reaching the DigitalOcean or PMM API in
\* validate-token, validate-pmm, list-databases or create-user is answered with
\* HTTP 502 and no other status code.
C13_UnreachableIs502 ==
    UpstreamUnreachable => (resp.kind = "http" /\ resp.code = 502)

\* ensure_pmm_client_configured has been called and has not returned yet.
InBootstrap == pc \in {"ensure", "config", "status2"}

\* ensure_pmm_client_configured has returned its result, a dict with a success
\* flag, to add_to_pmm.
BootstrapReturned ==
    /\ AddOperation
    /\ loc.ensure # NoDict
    /\ "success" \in DOMAIN loc.ensure
    /\ loc.ensure.success \in BOOLEAN

\* The agent invocations the bootstrap has made in this call, by subcommand.
BootstrapInvocations ==
    /\ CountOf("status") <= 2
    /\ CountOf("config") <= 1
    /\ CountOf("config") = 1 => (CountOf("status") >= 1 /\ Subs[IndexOf(Subs, "config") - 1] = "status")

\* C14: on a host where the agent invocations return, every call of the bootstrap
\* returns a result with a success flag, and no call makes more than two status
\* checks or more than one `config` invocation, whatever the status after config.
C14_BootstrapTerminatesWithoutRetry ==
    /\ [](AddOperation => BootstrapInvocations)
    /\ (InBootstrap /\ ~AgentMissing) ~> BootstrapReturned

\* C14 witness: the status after config said not set up again, and the bootstrap
\* returned a failure after two status checks and a single `config`.
C14_Witness ==
    /\ BootstrapReturned
    /\ ~loc.ensure.success
    /\ loc.out2 # None
    /\ _status_not_setup(loc.out2)
    /\ CountOf("status") = 2
    /\ CountOf("config") = 1

=============================================================================
